---- MODULE Spec2Model ----
(***************************************************************************)
(* Pipeline orchestration and single-flight lock of the Instagram campaign *)
(* API: app/scheduler/lock.py, app/services/pipeline.py and the parts of   *)
(* app/services/scraping.py that run_full_pipeline calls.                  *)
(*                                                                         *)
(* Spec      : threads (scheduler ticks and manual triggers) that each     *)
(*             execute run_full_pipeline, interleaved statement-wise on    *)
(*             the shared lock and the scraping_runs table.                *)
(* LockSpec  : one caller that invokes acquire_pipeline_lock and           *)
(*             release_pipeline_lock in any order, as the unit tests do.   *)
(* RouterSpec: Spec's threads plus the POST /run handler of                *)
(*             app/routers/scraping.py, which starts such threads.         *)
(* VaderSpec : analyze_sentiment_vader on one compound score.              *)
(* SentimentSpec: two concurrent baseline passes (phase 3 and the direct   *)
(*             sentiment trigger) over the comments and sentiment_scores   *)
(*             tables of app/services/sentiment.py.                        *)
(* GateSpec  : _get_ambiguous_comments on one table of scores.             *)
(* ReconcileSpec: two concurrent reclassify_ambiguous_comments runs (phase *)
(*             4 and the direct llm-fallback trigger).                     *)
(* ClassifySpec: the two baseline passes together with the direct          *)
(*             llm-fallback trigger.                                       *)
(***************************************************************************)
EXTENDS Integers, Sequences, FiniteSets, TLC

\* ---- bounds -------------------------------------------------------------
MaxRuns == 2
NumCandidates == 2
MaxCalls == 4
NumComments == 2

\* ---- value sets ---------------------------------------------------------
None == 0
RunIds == 1..MaxRuns
TerminalStatuses == {"success", "failed", "partial"}
NoRow == [status |-> "absent", completed_at |-> FALSE,
          duration_seconds |-> "null", errors |-> <<>>]
NoResult == [status |-> "none", run_id |-> None, error |-> FALSE]

VARIABLES
  pipeline_lock,     \* lock.py _pipeline_lock: TRUE when the threading.Lock is locked
  current_run_id,    \* lock.py _current_run_id
  scraping_runs,     \* table scraping_runs: run id -> row
  pc,                \* position of each thread inside run_full_pipeline
  has_errors,        \* local has_errors
  candidates,        \* local candidates (result of _get_active_candidates)
  idx,               \* position of the phase 1 for-loop
  all_posts,         \* local all_posts
  exc,               \* an exception is propagating out of the except handler
  result,            \* the dict returned by run_full_pipeline
  attempted,         \* history: usernames passed to scrape_posts, with outcome
  status_log,        \* history: statuses written to each run by _update_run_status
  handled,           \* history: the outer except handler was entered
  t_log,             \* LockSpec: the calls made so far, with their results
  candidates_table,  \* table candidates: the active candidates, in listing order
  rq_pc,             \* position of the POST /run request being handled
  response,          \* the last response of POST /run
  launched,          \* thread -> run_id returned by the request that started it
  vader_in,          \* VaderSpec: the compound score of the text under analysis
  vader_out,         \* VaderSpec: the label analyze_sentiment_vader returned
  comments,          \* table comments: comment id -> text (compound, length)
  sentiment_scores,  \* table sentiment_scores: comment id -> its rows
  w_pc,              \* position of each baseline pass (run_vader_analysis / phase 3)
  batch,             \* per pass: the comments returned by _get_unanalyzed_comments
  pos,               \* per pass: position of the for-loop of analyze_comments_batch
  results,           \* per pass: local results of analyze_comments_batch
  failed,            \* history, per pass: comments whose insert raised
  selected,          \* GateSpec: the list _get_ambiguous_comments returned
  rc,                \* per reconciliation: locals of reclassify_ambiguous_comments
  llm_log            \* history: comment id -> the LLM results written to its row

vars == <<pipeline_lock, current_run_id, scraping_runs, pc, has_errors,
          candidates, idx, all_posts, exc, result, attempted, status_log,
          handled, t_log, candidates_table, rq_pc, response, launched,
          vader_in, vader_out, comments, sentiment_scores, w_pc, batch, pos,
          results, failed, selected, rc, llm_log>>

lockVars == <<pipeline_lock, current_run_id>>
localVars == <<has_errors, candidates, idx, all_posts, exc>>
histVars == <<attempted, status_log, handled>>
reqVars == <<rq_pc, response, launched>>
vaderVars == <<vader_in, vader_out>>
tableVars == <<comments, sentiment_scores>>
passVars == <<w_pc, batch, pos, results, failed>>
rcVars == <<rc, llm_log>>
sentVars == <<vaderVars, tableVars, passVars, selected, rcVars>>
otherVars == <<candidates_table, reqVars, sentVars>>
pipelineVars == <<lockVars, scraping_runs, pc, localVars, result, histVars,
                  t_log, candidates_table, reqVars>>

\* ---- threading.Lock ------------------------------------------------------
\* Variant: the try always reports success (a blocking flag that is ignored).
lock_acquire_always(locked) ==
  [locked |-> TRUE, ok |-> TRUE]

\* Lock.acquire(blocking=False): never waits; ok tells whether it was taken.
lock_acquire_nonblocking(locked) ==
  [locked |-> TRUE, ok |-> ~locked]

\* Lock.release(): RuntimeError when the lock is not locked.
lock_release(locked) ==
  [locked |-> FALSE, runtime_error |-> ~locked]

\* ---- lock.py as whole calls ---------------------------------------------
\* Variant: the holder id is assigned before the result of the try is tested.
acquire_pipeline_lock_assign_first(locked, cur, run_id) ==
  LET a == lock_acquire_nonblocking(locked)
  IN  [locked |-> a.locked, cur |-> run_id, ret |-> a.ok]

acquire_pipeline_lock(locked, cur, run_id) ==
  LET a == lock_acquire_nonblocking(locked)
  IN  IF a.ok
      THEN [locked |-> a.locked, cur |-> run_id, ret |-> TRUE]
      ELSE [locked |-> a.locked, cur |-> cur, ret |-> FALSE]

\* Variant: the RuntimeError of releasing an unlocked lock is not caught.
release_pipeline_lock_uncaught(locked, cur) ==
  LET rel == lock_release(locked)
  IN  [locked |-> rel.locked, cur |-> None, raised |-> rel.runtime_error]

\* _current_run_id = None; try: _pipeline_lock.release() except RuntimeError: pass
release_pipeline_lock(locked, cur) ==
  LET rel == lock_release(locked)
  IN  [locked |-> rel.locked, cur |-> None, raised |-> FALSE]

get_current_run_id == current_run_id
is_pipeline_running == current_run_id # None

\* ---- active candidates (table candidates, is_active = True) --------------
ActiveCandidates == [i \in 1..NumCandidates |-> i]

\* ---- scraping_runs helpers ----------------------------------------------
create_scraping_run(runs, run_id) ==
  [runs EXCEPT ![run_id] = [status |-> "running", completed_at |-> FALSE,
                            duration_seconds |-> "null", errors |-> <<>>]]

update_run_status(runs, run_id, status, duration) ==
  [runs EXCEPT ![run_id] = [@ EXCEPT !.status = status,
                                     !.completed_at = TRUE,
                                     !.duration_seconds = duration]]

append_run_error(runs, run_id, entry) ==
  [runs EXCEPT ![run_id] = [@ EXCEPT !.errors = Append(@, entry)]]

NoResponse == [code |-> 0, run_id |-> None, header |-> None]

\* The passes of baseline classification: phase 3 of the pipeline and the
\* direct trigger POST /sentiment.
Passes == {"phase3", "endpoint"}

\* _get_ambiguous_comments has not been called.
NotCalled == [called |-> FALSE, eligible |-> <<>>]

\* The invocations of reclassify_ambiguous_comments: phase 4 of the pipeline
\* and the direct trigger POST /sentiment/llm-fallback.
Reconcilers == {"phase4", "fallback"}

\* The locals of reclassify_ambiguous_comments before its first statement;
\* written and llm_failed record what the invocation did.
RcIdle ==
  [pc |-> "idle", ambiguous |-> <<>>, pos |-> 0,
   api_calls_made |-> 0, confidence_upgrades |-> 0,
   retained_vader_label |-> 0, reclassified_count |-> 0,
   written |-> <<>>, llm_failed |-> {}]

\* No reconciliation is active and none has written a row.
ReconcilersIdle ==
  /\ rc = [q \in Reconcilers |-> RcIdle]
  /\ llm_log = [c \in DOMAIN comments |-> <<>>]

\* No text is under analysis.
VaderIdle == vader_in = 0 /\ vader_out = "none"

\* No baseline pass is active.
PassesIdle ==
  /\ w_pc = [w \in Passes |-> "idle"]
  /\ batch = [w \in Passes |-> <<>>]
  /\ pos = [w \in Passes |-> 0]
  /\ results = [w \in Passes |-> <<>>]
  /\ failed = [w \in Passes |-> {}]

\* The sentiment side at start-up with empty comments and sentiment_scores
\* tables.
SentimentIdle ==
  /\ VaderIdle
  /\ comments = <<>>
  /\ sentiment_scores = <<>>
  /\ PassesIdle
  /\ selected = NotCalled
  /\ ReconcilersIdle

\* The pipeline side after start-up, with the given rows in the candidates
\* table.
PipelineIdle(table) ==
  /\ pipeline_lock = FALSE
  /\ current_run_id = None
  /\ scraping_runs = [r \in RunIds |-> NoRow]
  /\ pc = [r \in RunIds |-> "idle"]
  /\ has_errors = [r \in RunIds |-> FALSE]
  /\ candidates = [r \in RunIds |-> <<>>]
  /\ idx = [r \in RunIds |-> 0]
  /\ all_posts = [r \in RunIds |-> <<>>]
  /\ exc = [r \in RunIds |-> FALSE]
  /\ result = [r \in RunIds |-> NoResult]
  /\ attempted = [r \in RunIds |-> <<>>]
  /\ status_log = [r \in RunIds |-> <<>>]
  /\ handled = [r \in RunIds |-> FALSE]
  /\ t_log = <<>>
  /\ candidates_table = table
  /\ rq_pc = "idle"
  /\ response = NoResponse
  /\ launched = [r \in RunIds |-> None]

Init == PipelineIdle(ActiveCandidates) /\ SentimentIdle

goto(r, l) == pc' = [pc EXCEPT ![r] = l]

\* A scheduler tick (_pipeline_job) or the thread started by POST /run calls
\* run_full_pipeline.  The trigger argument is only written to the log, so
\* both kinds of call are this one action.  Threads are numbered in the order
\* they start.
Start(r) ==
  /\ pc[r] = "idle"
  /\ IF r = 1 THEN TRUE ELSE pc[r - 1] # "idle"
  /\ goto(r, "create")
  /\ UNCHANGED <<lockVars, scraping_runs, localVars, result, histVars, t_log,
                 otherVars>>

\* run_id = _create_scraping_run(): the insert returns the new row's id, or raises.
CreateRun(r) ==
  /\ pc[r] = "create"
  /\ \/ /\ scraping_runs' = create_scraping_run(scraping_runs, r)
        /\ goto(r, "acquire")
     \/ /\ goto(r, "raised")
        /\ UNCHANGED scraping_runs
  /\ UNCHANGED <<lockVars, localVars, result, histVars, t_log, otherVars>>

\* if not acquire_pipeline_lock(run_id): the non-blocking try on the lock.
AcquireLock(r) ==
  /\ pc[r] = "acquire"
  /\ LET a == lock_acquire_nonblocking(pipeline_lock)
     IN  /\ pipeline_lock' = a.locked
         /\ goto(r, IF a.ok THEN "set_id" ELSE "skip_update")
  /\ UNCHANGED <<current_run_id, scraping_runs, localVars, result,
                 histVars, t_log, otherVars>>

\* _current_run_id = run_id; return True.  The try block is entered.
SetRunId(r) ==
  /\ pc[r] = "set_id"
  /\ current_run_id' = r
  /\ goto(r, "phase1")
  /\ UNCHANGED <<pipeline_lock, scraping_runs, localVars, result,
                 histVars, t_log, otherVars>>

\* Variant: the refused call also runs release_pipeline_lock(), as if the
\* acquisition were inside the try/finally.
SkipRun_releases(r) ==
  /\ pc[r] = "skip_update"
  /\ LET rel == release_pipeline_lock(pipeline_lock, current_run_id)
     IN  /\ pipeline_lock' = rel.locked
         /\ current_run_id' = rel.cur
  /\ \/ /\ scraping_runs' = update_run_status(scraping_runs, r, "failed", "zero")
        /\ status_log' = [status_log EXCEPT ![r] = Append(@, "failed")]
        /\ result' = [result EXCEPT ![r] =
                        [status |-> "skipped", run_id |-> None, error |-> FALSE]]
        /\ goto(r, "done")
     \/ /\ goto(r, "raised")
        /\ UNCHANGED <<scraping_runs, status_log, result>>
  /\ UNCHANGED <<localVars, attempted, handled, t_log, otherVars>>

\* Lock not acquired: _update_run_status(run_id, "failed", 0.0) and
\* return {"status": "skipped"}; the store update may raise.
SkipRun(r) ==
  /\ pc[r] = "skip_update"
  /\ \/ /\ scraping_runs' = update_run_status(scraping_runs, r, "failed", "zero")
        /\ status_log' = [status_log EXCEPT ![r] = Append(@, "failed")]
        /\ result' = [result EXCEPT ![r] =
                        [status |-> "skipped", run_id |-> None, error |-> FALSE]]
        /\ goto(r, "done")
     \/ /\ goto(r, "raised")
        /\ UNCHANGED <<scraping_runs, status_log, result>>
  /\ UNCHANGED <<lockVars, localVars, attempted, handled, t_log, otherVars>>

\* Phase 1: candidates = _get_active_candidates(); all_posts = [].
Phase1Begin(r) ==
  /\ pc[r] = "phase1"
  /\ \/ /\ candidates' = [candidates EXCEPT ![r] = candidates_table]
        /\ idx' = [idx EXCEPT ![r] = 1]
        /\ goto(r, "scrape")
        /\ UNCHANGED handled
     \/ /\ goto(r, "handler")
        /\ handled' = [handled EXCEPT ![r] = TRUE]
        /\ UNCHANGED <<candidates, idx>>
  /\ UNCHANGED <<lockVars, scraping_runs, has_errors, all_posts, exc,
                 result, attempted, status_log, t_log, otherVars>>

\* scrape_posts(username, run_id) by outcome:
\*   posts        the actor returns one post, which is upserted and returned
\*   empty        the actor returns no item
\*   not_found    _resolve_candidate_id raises ValueError; error recorded
\*   apify_failed the actor call raises; error recorded, RuntimeError raised
\*   store_failed a store call raises before any error is recorded
ScrapeOutcomes == {"posts", "empty", "not_found", "apify_failed", "store_failed"}

scrape_posts(runs, run_id, username, outcome) ==
  CASE outcome = "posts" ->
         [runs |-> runs, raised |-> FALSE, posts |-> <<username>>]
    [] outcome = "empty" ->
         [runs |-> runs, raised |-> FALSE, posts |-> <<>>]
    [] outcome \in {"not_found", "apify_failed"} ->
         [runs |-> append_run_error(runs, run_id, "post_scraping"),
          raised |-> TRUE, posts |-> <<>>]
    [] OTHER ->
         [runs |-> runs, raised |-> TRUE, posts |-> <<>>]

\* Variant: the except block leaves the loop.
next_candidate_break(i, n, raised) == IF raised THEN n + 1 ELSE i + 1

\* The except block of the loop neither breaks nor re-raises: after an
\* iteration, failed or not, the loop goes on with the next candidate.
next_candidate(i, n, raised) == i + 1

\* One iteration of `for candidate in candidates` with its try/except, or the
\* exit of the loop.
ScrapeCandidate(r) ==
  /\ pc[r] = "scrape"
  /\ IF idx[r] <= Len(candidates[r])
     THEN \E o \in ScrapeOutcomes :
            LET username == candidates[r][idx[r]]
                s == scrape_posts(scraping_runs, r, username, o)
            IN  /\ scraping_runs' = s.runs
                /\ attempted' = [attempted EXCEPT ![r] =
                                   Append(@, [username |-> username,
                                              raised |-> s.raised,
                                              posts |-> s.posts])]
                /\ IF s.raised
                   THEN /\ has_errors' = [has_errors EXCEPT ![r] = TRUE]
                        /\ UNCHANGED all_posts
                   ELSE /\ all_posts' = [all_posts EXCEPT ![r] = @ \o s.posts]
                        /\ UNCHANGED has_errors
                /\ idx' = [idx EXCEPT ![r] =
                             next_candidate(@, Len(candidates[r]), s.raised)]
                /\ UNCHANGED pc
     ELSE /\ goto(r, "phase2")
          /\ UNCHANGED <<scraping_runs, attempted, has_errors, all_posts, idx>>
  /\ UNCHANGED <<lockVars, candidates, exc, result, status_log,
                 handled, t_log, otherVars>>

\* scrape_all_comments(posts, run_id): scrape_comments per post; an actor
\* failure is recorded in the run's errors and yields [], it never raises.
RECURSIVE scrape_all_comments(_, _, _, _)
scrape_all_comments(runs, run_id, posts, failing) ==
  IF posts = <<>> THEN runs
  ELSE scrape_all_comments(
         IF Head(posts) \in failing
         THEN append_run_error(runs, run_id, "comment_scraping")
         ELSE runs,
         run_id, Tail(posts), failing)

Range(s) == {s[i] : i \in DOMAIN s}

\* Phase 2: if all_posts: scrape_all_comments(all_posts, run_id).  The final
\* _update_run_comments_scraped may raise, which ends the try body.
Phase2(r) ==
  /\ pc[r] = "phase2"
  /\ IF all_posts[r] # <<>>
     THEN \E failing \in SUBSET Range(all_posts[r]) :
            /\ scraping_runs' =
                 scrape_all_comments(scraping_runs, r, all_posts[r], failing)
            /\ \/ goto(r, "phase3") /\ UNCHANGED handled
               \/ goto(r, "handler") /\ handled' = [handled EXCEPT ![r] = TRUE]
     ELSE /\ goto(r, "phase3")
          /\ UNCHANGED <<scraping_runs, handled>>
  /\ UNCHANGED <<lockVars, localVars, result, attempted, status_log,
                 t_log, otherVars>>

\* A phase of the try body that either completes or raises to the outer
\* handler: phase 3 (_get_unanalyzed_comments, analyze_comments_batch),
\* phase 4 (reclassify_ambiguous_comments), phase 5
\* (classify_all_unthemed_comments).
PhaseStep(r, here, next) ==
  /\ pc[r] = here
  /\ \/ goto(r, next) /\ UNCHANGED handled
     \/ goto(r, "handler") /\ handled' = [handled EXCEPT ![r] = TRUE]
  /\ UNCHANGED <<lockVars, scraping_runs, localVars, result,
                 attempted, status_log, t_log, otherVars>>

\* Variant: the LLM fallback phase is left out of the sequence.
Phase3_skips_llm(r) == PhaseStep(r, "phase3", "phase5")

Phase3(r) == PhaseStep(r, "phase3", "phase4")
Phase4(r) == PhaseStep(r, "phase4", "phase5")
Phase5(r) == PhaseStep(r, "phase5", "complete")

\* Variant: has_errors is ignored.
final_status_ignores_errors(errors) == "success"

\* Variant: the condition is inverted.
final_status_inverted(errors) == IF errors THEN "success" ELSE "partial"

\* status = "partial" if has_errors else "success"
final_status(errors) == IF errors THEN "partial" ELSE "success"

\* Variant: a statement after the status update raises, so the outer handler
\* runs although the status is already persisted.
Complete_raises_after_update(r) ==
  /\ pc[r] = "complete"
  /\ LET status == final_status(has_errors[r])
     IN  /\ scraping_runs' =
              update_run_status(scraping_runs, r, status, "elapsed")
         /\ status_log' = [status_log EXCEPT ![r] = Append(@, status)]
         /\ goto(r, "handler")
         /\ handled' = [handled EXCEPT ![r] = TRUE]
         /\ UNCHANGED result
  /\ UNCHANGED <<lockVars, localVars, attempted, t_log, otherVars>>

\* Complete: _update_run_status(run_id, status, duration) and the return of
\* the summary; a raising update is caught by the outer handler.
Complete(r) ==
  /\ pc[r] = "complete"
  /\ LET status == final_status(has_errors[r])
     IN  \/ /\ scraping_runs' =
                 update_run_status(scraping_runs, r, status, "elapsed")
            /\ status_log' = [status_log EXCEPT ![r] = Append(@, status)]
            /\ result' = [result EXCEPT ![r] =
                            [status |-> status, run_id |-> r, error |-> FALSE]]
            /\ goto(r, "release_id")
            /\ UNCHANGED handled
         \/ /\ goto(r, "handler")
            /\ handled' = [handled EXCEPT ![r] = TRUE]
            /\ UNCHANGED <<scraping_runs, status_log, result>>
  /\ UNCHANGED <<lockVars, localVars, attempted, t_log, otherVars>>

\* except Exception: _update_run_status(run_id, "failed", duration) and the
\* return of the failure dict.  The update is not guarded: when it raises,
\* the exception leaves run_full_pipeline after the finally block.
Handler(r) ==
  /\ pc[r] = "handler"
  /\ \/ /\ scraping_runs' =
             update_run_status(scraping_runs, r, "failed", "elapsed")
        /\ status_log' = [status_log EXCEPT ![r] = Append(@, "failed")]
        /\ result' = [result EXCEPT ![r] =
                        [status |-> "failed", run_id |-> r, error |-> TRUE]]
        /\ UNCHANGED exc
     \/ /\ exc' = [exc EXCEPT ![r] = TRUE]
        /\ UNCHANGED <<scraping_runs, status_log, result>>
  /\ goto(r, "release_id")
  /\ UNCHANGED <<lockVars, has_errors, candidates, idx, all_posts,
                 attempted, handled, t_log, otherVars>>

\* finally: release_pipeline_lock(), first statement: _current_run_id = None.
ReleaseRunId(r) ==
  /\ pc[r] = "release_id"
  /\ current_run_id' = None
  /\ goto(r, "release_lock")
  /\ UNCHANGED <<pipeline_lock, scraping_runs, localVars, result,
                 histVars, t_log, otherVars>>

\* Variant: the lock is released on the returning paths only, not in a
\* finally block.
ReleaseLock_not_finally(r) ==
  /\ pc[r] = "release_lock"
  /\ pipeline_lock' = IF exc[r] THEN pipeline_lock
                                ELSE lock_release(pipeline_lock).locked
  /\ goto(r, IF exc[r] THEN "raised" ELSE "done")
  /\ candidates' = [candidates EXCEPT ![r] = <<>>]
  /\ idx' = [idx EXCEPT ![r] = 0]
  /\ all_posts' = [all_posts EXCEPT ![r] = <<>>]
  /\ exc' = [exc EXCEPT ![r] = FALSE]
  /\ attempted' = [attempted EXCEPT ![r] = <<>>]
  /\ UNCHANGED <<current_run_id, scraping_runs, has_errors, result,
                 status_log, handled, t_log, otherVars>>

\* finally: _pipeline_lock.release() (a RuntimeError is swallowed), then the
\* pending return or exception completes.  The locals of the call end here;
\* has_errors keeps the value the run ended with.
ReleaseLock(r) ==
  /\ pc[r] = "release_lock"
  /\ pipeline_lock' = lock_release(pipeline_lock).locked
  /\ goto(r, IF exc[r] THEN "raised" ELSE "done")
  /\ candidates' = [candidates EXCEPT ![r] = <<>>]
  /\ idx' = [idx EXCEPT ![r] = 0]
  /\ all_posts' = [all_posts EXCEPT ![r] = <<>>]
  /\ exc' = [exc EXCEPT ![r] = FALSE]
  /\ attempted' = [attempted EXCEPT ![r] = <<>>]
  /\ UNCHANGED <<current_run_id, scraping_runs, has_errors, result,
                 status_log, handled, t_log, otherVars>>

Next ==
  \E r \in RunIds :
    \/ Start(r)
    \/ CreateRun(r)
    \/ AcquireLock(r)
    \/ SetRunId(r)
    \/ SkipRun(r)
    \/ Phase1Begin(r)
    \/ ScrapeCandidate(r)
    \/ Phase2(r)
    \/ Phase3(r)
    \/ Phase4(r)
    \/ Phase5(r)
    \/ Complete(r)
    \/ Handler(r)
    \/ ReleaseRunId(r)
    \/ ReleaseLock(r)

Spec == Init /\ [][Next]_vars

TypeOK ==
  /\ pipeline_lock \in BOOLEAN
  /\ current_run_id \in RunIds \cup {None}
  /\ \A r \in RunIds : scraping_runs[r].status \in
        {"absent", "running"} \cup TerminalStatuses

\* ---- LockSpec: a single caller of lock.py --------------------------------
Last(s) == s[Len(s)]

TestAcquire ==
  /\ Len(t_log) < MaxCalls
  /\ \E id \in RunIds :
       LET a == acquire_pipeline_lock(pipeline_lock, current_run_id, id)
       IN  /\ pipeline_lock' = a.locked
           /\ current_run_id' = a.cur
           /\ t_log' = Append(t_log, [op |-> "acquire", arg |-> id,
                                      ret |-> a.ret, raised |-> FALSE])
  /\ UNCHANGED <<scraping_runs, pc, localVars, result, histVars, otherVars>>

TestRelease ==
  /\ Len(t_log) < MaxCalls
  /\ LET rel == release_pipeline_lock(pipeline_lock, current_run_id)
     IN  /\ pipeline_lock' = rel.locked
         /\ current_run_id' = rel.cur
         /\ t_log' = Append(t_log, [op |-> "release", arg |-> None,
                                    ret |-> FALSE, raised |-> rel.raised])
  /\ UNCHANGED <<scraping_runs, pc, localVars, result, histVars, otherVars>>

LockNext == TestAcquire \/ TestRelease

LockSpec == Init /\ [][LockNext]_vars

\* ---- RouterSpec: POST /run (routers/scraping.py trigger_full_pipeline) ----
\* The value of the X-Current-Run-Id header when no run id is set.
Unknown == -1

\* An identifier that is the id of no scraping_runs row.
FreshUuid == MaxRuns + 1

\* uuid4(): a random identifier; it is equal to the id the store will give
\* to the launched run's row, or it is not.
uuid4(row_id) == {row_id, FreshUuid}

\* The thread that the next threading.Thread(...).start() creates.
HasIdleThread == \E r \in RunIds : pc[r] = "idle"
NextThread ==
  CHOOSE r \in RunIds : pc[r] = "idle" /\ \A q \in 1..(r - 1) : pc[q] # "idle"

\* Variant: the handler creates the run record before it checks for a
\* running pipeline.
TriggerCheck_creates_first ==
  /\ rq_pc = "idle"
  /\ HasIdleThread
  /\ IF is_pipeline_running
     THEN /\ rq_pc' = "conflict"
          /\ scraping_runs' = create_scraping_run(scraping_runs, NextThread)
          /\ UNCHANGED <<pc, response, launched>>
     ELSE /\ \E u \in uuid4(NextThread) :
               /\ response' = [code |-> 202, run_id |-> u, header |-> None]
               /\ launched' = [launched EXCEPT ![NextThread] = u]
          /\ goto(NextThread, "create")
          /\ UNCHANGED <<rq_pc, scraping_runs>>
  /\ UNCHANGED <<lockVars, localVars, result, histVars, t_log,
                 candidates_table, sentVars>>

\* if is_pipeline_running(): ... else: run_id = uuid4(); the thread running
\* run_full_pipeline(trigger="manual") is started; 202 with str(run_id).
TriggerCheck ==
  /\ rq_pc = "idle"
  /\ IF is_pipeline_running
     THEN /\ rq_pc' = "conflict"
          /\ UNCHANGED <<pc, response, launched>>
     ELSE /\ HasIdleThread
          /\ \E u \in uuid4(NextThread) :
               /\ response' = [code |-> 202, run_id |-> u, header |-> None]
               /\ launched' = [launched EXCEPT ![NextThread] = u]
          /\ goto(NextThread, "create")
          /\ UNCHANGED rq_pc
  /\ UNCHANGED <<lockVars, scraping_runs, localVars, result, histVars, t_log,
                 candidates_table, sentVars>>

\* current_run = get_current_run_id(); raise HTTPException(409) with header
\* X-Current-Run-Id: str(current_run) if current_run else "unknown".
TriggerConflict ==
  /\ rq_pc = "conflict"
  /\ LET current_run == get_current_run_id
     IN  response' = [code |-> 409, run_id |-> None,
                      header |-> IF current_run # None THEN current_run
                                 ELSE Unknown]
  /\ rq_pc' = "idle"
  /\ UNCHANGED <<lockVars, scraping_runs, pc, localVars, result, histVars,
                 t_log, candidates_table, launched, sentVars>>

RouterNext == Next \/ TriggerCheck \/ TriggerConflict

\* No active candidates: phase 1 has nothing to scrape.
RouterInit == PipelineIdle(<<>>) /\ SentimentIdle

RouterSpec == RouterInit /\ [][RouterNext]_vars

\* ---- sentiment.py: baseline (VADER) classification -----------------------
\* Scores and confidences are fixed-point numbers: Scale units make 1.0.
Scale == 1000
Hundredths(n) == (n * Scale) \div 100
Thousandths(n) == (n * Scale) \div 1000

\* core/constants.py
VADER_POSITIVE_THRESHOLD == Hundredths(5)
VADER_NEGATIVE_THRESHOLD == -Hundredths(5)
LLM_AMBIGUOUS_MIN_LENGTH == 20

\* The compound scores polarity_scores can return: -1.0 .. 1.0.
CompoundRange == (-Scale)..Scale

SentimentLabel == {"positive", "negative", "neutral"}

\* Variant: the thresholds are exclusive.
vader_label_exclusive(compound) ==
  IF compound > VADER_POSITIVE_THRESHOLD THEN "positive"
  ELSE IF compound < VADER_NEGATIVE_THRESHOLD THEN "negative"
  ELSE "neutral"

\* The if / elif / else of analyze_sentiment_vader.
vader_label(compound) ==
  IF compound >= VADER_POSITIVE_THRESHOLD THEN "positive"
  ELSE IF compound <= VADER_NEGATIVE_THRESHOLD THEN "negative"
  ELSE "neutral"

\* analyze_sentiment_vader(comment_text), for a text whose polarity_scores
\* compound is the given one.
analyze_sentiment_vader(compound) ==
  [vader_compound |-> compound, vader_label |-> vader_label(compound)]

\* ---- VaderSpec: analyze_sentiment_vader on every compound score ----------
VaderInit ==
  /\ PipelineIdle(ActiveCandidates)
  /\ vader_in \in CompoundRange
  /\ vader_out = "none"
  /\ comments = <<>>
  /\ sentiment_scores = <<>>
  /\ PassesIdle
  /\ selected = NotCalled
  /\ ReconcilersIdle

Analyze ==
  /\ vader_out = "none"
  /\ vader_out' = analyze_sentiment_vader(vader_in).vader_label
  /\ UNCHANGED <<pipelineVars, vader_in, tableVars, passVars, selected,
                 rcVars>>

VaderNext == Analyze

VaderSpec == VaderInit /\ [][VaderNext]_vars

\* ---- sentiment.py: analyze_comments_batch ---------------------------------
CommentIds == 1..NumComments

\* A comment text, reduced to what the classification reads: the compound
\* score polarity_scores gives it and its length in characters.
Compounds ==
  {-Hundredths(5), -Thousandths(49), Thousandths(49), Hundredths(5)}
Lengths == {LLM_AMBIGUOUS_MIN_LENGTH, LLM_AMBIGUOUS_MIN_LENGTH + 1}
Texts == [compound : Compounds, length : Lengths]

\* NULL in the llm_label and llm_model columns, and in llm_confidence.
Null == "null"
NullConfidence == -1

\* Variant: final_label is not taken from the VADER result.
SentimentScoreCreate_neutral_final(comment_id, text) ==
  LET vader_result == analyze_sentiment_vader(text.compound)
  IN  [comment_id |-> comment_id,
       vader_compound |-> vader_result.vader_compound,
       vader_label |-> vader_result.vader_label,
       final_label |-> "neutral",
       llm_label |-> Null,
       llm_confidence |-> NullConfidence,
       llm_model |-> Null]

\* SentimentScoreCreate(...) of analyze_comments_batch: final_label is the
\* VADER label and the llm_* fields are None.
SentimentScoreCreate(comment_id, text) ==
  LET vader_result == analyze_sentiment_vader(text.compound)
  IN  [comment_id |-> comment_id,
       vader_compound |-> vader_result.vader_compound,
       vader_label |-> vader_result.vader_label,
       final_label |-> vader_result.vader_label,
       llm_label |-> Null,
       llm_confidence |-> NullConfidence,
       llm_model |-> Null]

\* Variant: sentiment_scores has no uniqueness constraint on comment_id.
insert_sentiment_score_unconstrained(scores, row) ==
  [scores |-> [scores EXCEPT ![row.comment_id] = Append(@, row)],
   raised |-> FALSE]

\* client.table("sentiment_scores").insert(row).execute(): the store rejects
\* a second row for the same comment (uniqueness constraint on comment_id).
insert_sentiment_score(scores, row) ==
  IF scores[row.comment_id] # <<>>
  THEN [scores |-> scores, raised |-> TRUE]
  ELSE [scores |-> [scores EXCEPT ![row.comment_id] = Append(@, row)],
        raised |-> FALSE]

\* _get_unanalyzed_comments(): the ids of the comments that have no row in
\* sentiment_scores, in the order of the comments table.
get_unanalyzed_comments(all_comments, scores) ==
  SelectSeq([i \in 1..Len(all_comments) |-> i], LAMBDA c : scores[c] = <<>>)

\* Variant: the first failed insert ends the loop.
next_comment_break(i, n, raised) == IF raised THEN n + 1 ELSE i + 1

\* The for-loop of analyze_comments_batch: the except clause logs and the
\* loop goes on with the next comment.
next_comment(i, n, raised) == i + 1

\* ---- SentimentSpec: two concurrent baseline passes -------------------------
SentimentInit ==
  /\ PipelineIdle(ActiveCandidates)
  /\ VaderIdle
  /\ comments \in [CommentIds -> Texts]
  /\ sentiment_scores = [c \in CommentIds |-> <<>>]
  /\ PassesIdle
  /\ selected = NotCalled
  /\ ReconcilersIdle

\* unanalyzed = _get_unanalyzed_comments(); analyze_comments_batch(unanalyzed)
\* is entered: "if not comments: return []", else results = [].
GetUnanalyzed(w) ==
  /\ w_pc[w] \in {"idle", "returned"}
  /\ LET unanalyzed == get_unanalyzed_comments(comments, sentiment_scores)
     IN  /\ batch' = [batch EXCEPT ![w] = unanalyzed]
         /\ w_pc' = [w_pc EXCEPT ![w] =
                       IF unanalyzed = <<>> THEN "returned" ELSE "insert"]
  /\ pos' = [pos EXCEPT ![w] = 1]
  /\ results' = [results EXCEPT ![w] = <<>>]
  /\ failed' = [failed EXCEPT ![w] = {}]
  /\ UNCHANGED <<pipelineVars, vaderVars, tableVars, selected, rcVars>>

\* Variant: the row is written with upsert, replacing the comment's row.
InsertScore_upsert(w) ==
  /\ w_pc[w] = "insert"
  /\ IF pos[w] <= Len(batch[w])
     THEN LET comment_id == batch[w][pos[w]]
              score_data == SentimentScoreCreate(comment_id, comments[comment_id])
          IN  /\ sentiment_scores' =
                   [sentiment_scores EXCEPT ![comment_id] = <<score_data>>]
              /\ results' = [results EXCEPT ![w] = Append(@, score_data)]
              /\ pos' = [pos EXCEPT ![w] =
                           next_comment(@, Len(batch[w]), FALSE)]
              /\ UNCHANGED <<w_pc, failed>>
     ELSE /\ w_pc' = [w_pc EXCEPT ![w] = "returned"]
          /\ UNCHANGED <<sentiment_scores, failed, results, pos>>
  /\ UNCHANGED <<pipelineVars, vaderVars, comments, batch, selected,
                 rcVars>>

\* One iteration of the for-loop: classify the comment, insert its row; an
\* insert that raises (a store error or the uniqueness conflict) is logged
\* and skipped.  After the last comment the function returns results.
InsertScore(w) ==
  /\ w_pc[w] = "insert"
  /\ IF pos[w] <= Len(batch[w])
     THEN LET comment_id == batch[w][pos[w]]
              score_data == SentimentScoreCreate(comment_id, comments[comment_id])
          IN  \E store_error \in BOOLEAN :
                LET ins == IF store_error
                           THEN [scores |-> sentiment_scores, raised |-> TRUE]
                           ELSE insert_sentiment_score(sentiment_scores,
                                                       score_data)
                IN  /\ sentiment_scores' = ins.scores
                    /\ IF ins.raised
                       THEN /\ failed' = [failed EXCEPT ![w] =
                                            @ \cup {comment_id}]
                            /\ UNCHANGED results
                       ELSE /\ results' = [results EXCEPT ![w] =
                                             Append(@, score_data)]
                            /\ UNCHANGED failed
                    /\ pos' = [pos EXCEPT ![w] =
                                 next_comment(@, Len(batch[w]), ins.raised)]
                    /\ UNCHANGED w_pc
     ELSE /\ w_pc' = [w_pc EXCEPT ![w] = "returned"]
          /\ UNCHANGED <<sentiment_scores, failed, results, pos>>
  /\ UNCHANGED <<pipelineVars, vaderVars, comments, batch, selected,
                 rcVars>>

SentimentNext == \E w \in Passes : GetUnanalyzed(w) \/ InsertScore(w)

SentimentSpec == SentimentInit /\ [][SentimentNext]_vars

\* ---- sentiment.py: the ambiguity gate -------------------------------------
LLM_CONFIDENCE_THRESHOLD == Hundredths(70)

\* Results of analyze_sentiment_llm: a label and a confidence on either
\* side of the threshold.
LLMResults ==
  {[llm_label |-> "positive", llm_confidence |-> Hundredths(70)],
   [llm_label |-> "negative", llm_confidence |-> Hundredths(69)]}

\* The update reclassify_ambiguous_comments applies to a row.
reclassified(row, llm_result) ==
  [row EXCEPT !.llm_label = llm_result.llm_label,
              !.llm_confidence = llm_result.llm_confidence,
              !.llm_model = "llm",
              !.final_label =
                 IF llm_result.llm_confidence >= LLM_CONFIDENCE_THRESHOLD
                 THEN llm_result.llm_label ELSE row.vader_label]

\* The rows of sentiment_scores, in the order of their comments.
score_rows(scores) ==
  LET ids == SelectSeq([i \in 1..Len(scores) |-> i],
                       LAMBDA c : scores[c] # <<>>)
  IN  [i \in 1..Len(ids) |-> scores[ids[i]][1]]

\* Variant: the query has no llm_label filter.
get_ambiguous_comments_any_llm(all_comments, scores) ==
  LET ambiguous_scores ==
        SelectSeq(score_rows(scores),
                  LAMBDA s : /\ s.vader_compound > VADER_NEGATIVE_THRESHOLD
                             /\ s.vader_compound < VADER_POSITIVE_THRESHOLD)
      kept == SelectSeq(ambiguous_scores,
                LAMBDA s : all_comments[s.comment_id].length
                             > LLM_AMBIGUOUS_MIN_LENGTH)
  IN  [i \in 1..Len(kept) |->
         [comment_id |-> kept[i].comment_id,
          text |-> all_comments[kept[i].comment_id],
          vader_compound |-> kept[i].vader_compound,
          vader_label |-> kept[i].vader_label]]

\* Variant: a text of exactly the minimum length passes the filter.
get_ambiguous_comments_inclusive_length(all_comments, scores) ==
  LET ambiguous_scores ==
        SelectSeq(score_rows(scores),
                  LAMBDA s : /\ s.vader_compound > VADER_NEGATIVE_THRESHOLD
                             /\ s.vader_compound < VADER_POSITIVE_THRESHOLD
                             /\ s.llm_label = Null)
      kept == SelectSeq(ambiguous_scores,
                LAMBDA s : all_comments[s.comment_id].length
                             >= LLM_AMBIGUOUS_MIN_LENGTH)
  IN  [i \in 1..Len(kept) |->
         [comment_id |-> kept[i].comment_id,
          text |-> all_comments[kept[i].comment_id],
          vader_compound |-> kept[i].vader_compound,
          vader_label |-> kept[i].vader_label]]

\* _get_ambiguous_comments(): the query .gt(NEG).lt(POS).is_(llm_label, null)
\* on sentiment_scores, then the filter len(text) > LLM_AMBIGUOUS_MIN_LENGTH.
get_ambiguous_comments(all_comments, scores) ==
  LET ambiguous_scores ==
        SelectSeq(score_rows(scores),
                  LAMBDA s : /\ s.vader_compound > VADER_NEGATIVE_THRESHOLD
                             /\ s.vader_compound < VADER_POSITIVE_THRESHOLD
                             /\ s.llm_label = Null)
      kept == SelectSeq(ambiguous_scores,
                LAMBDA s : all_comments[s.comment_id].length
                             > LLM_AMBIGUOUS_MIN_LENGTH)
  IN  [i \in 1..Len(kept) |->
         [comment_id |-> kept[i].comment_id,
          text |-> all_comments[kept[i].comment_id],
          vader_compound |-> kept[i].vader_compound,
          vader_label |-> kept[i].vader_label]]

\* ---- GateSpec: _get_ambiguous_comments on every small table ----------------
\* The rows a comment can have: none, its baseline row, or, when the gate
\* selects the baseline row, that row after a reclassification.
RowsFor(c, text) ==
  LET base == SentimentScoreCreate(c, text)
      alone == [d \in CommentIds |-> IF d = c THEN <<base>> ELSE <<>>]
      texts == [d \in CommentIds |-> text]
  IN  {<<>>, <<base>>} \cup
      (IF get_ambiguous_comments(texts, alone) # <<>>
       THEN {<<reclassified(base, llm)>> : llm \in LLMResults}
       ELSE {})

GateInit ==
  /\ PipelineIdle(ActiveCandidates)
  /\ VaderIdle
  /\ comments \in [CommentIds -> Texts]
  /\ sentiment_scores \in
       [CommentIds -> UNION {RowsFor(c, t) : c \in CommentIds, t \in Texts}]
  /\ \A c \in CommentIds : sentiment_scores[c] \in RowsFor(c, comments[c])
  /\ PassesIdle
  /\ selected = NotCalled
  /\ ReconcilersIdle

GetAmbiguous ==
  /\ ~selected.called
  /\ selected' = [called |-> TRUE,
                  eligible |-> get_ambiguous_comments(comments,
                                                      sentiment_scores)]
  /\ UNCHANGED <<pipelineVars, vaderVars, tableVars, passVars, rcVars>>

GateNext == GetAmbiguous

GateSpec == GateInit /\ [][GateNext]_vars

\* ---- sentiment.py: reclassify_ambiguous_comments -------------------------
\* Variant: a confidence equal to the threshold is not accepted.
confidence_accepted_strict(llm_confidence) ==
  llm_confidence > LLM_CONFIDENCE_THRESHOLD

\* if llm_confidence >= LLM_CONFIDENCE_THRESHOLD
confidence_accepted(llm_confidence) ==
  llm_confidence >= LLM_CONFIDENCE_THRESHOLD

\* client.table("sentiment_scores").update({llm_label, llm_confidence,
\* llm_model, final_label}).eq("comment_id", comment_id): every row of the
\* comment gets the four values.
update_sentiment_score(scores, comment_id, llm_result, final_label) ==
  [scores EXCEPT ![comment_id] =
     [i \in DOMAIN @ |->
        [@[i] EXCEPT !.llm_label = llm_result.llm_label,
                     !.llm_confidence = llm_result.llm_confidence,
                     !.llm_model = "llm",
                     !.final_label = final_label]]]

\* Variant: a failed item ends the loop.
next_item_break(i, n, raised) == IF raised THEN n + 1 ELSE i + 1

\* Both except clauses of the loop end in "continue".
next_item(i, n, raised) == i + 1

\* ---- ReconcileSpec: two concurrent reconciliations --------------------------
\* The texts of the reconciliation runs: inside the neutral band or on its
\* upper boundary, of the minimum length or one character longer.
ReconcileTexts == {t \in Texts : t.compound > 0}

\* Every comment has no row or its baseline row.
ReconcileInit ==
  /\ PipelineIdle(ActiveCandidates)
  /\ VaderIdle
  /\ comments \in [CommentIds -> ReconcileTexts]
  /\ sentiment_scores \in
       [CommentIds ->
          {<<>>} \cup {<<SentimentScoreCreate(c, t)>> :
                         c \in CommentIds, t \in ReconcileTexts}]
  /\ \A c \in CommentIds :
       sentiment_scores[c] \in {<<>>, <<SentimentScoreCreate(c, comments[c])>>}
  /\ PassesIdle
  /\ selected = NotCalled
  /\ ReconcilersIdle

\* ambiguous = _get_ambiguous_comments() and the four counters set to 0; the
\* store query may raise, which ends the invocation.
StartReclassify(q) ==
  /\ rc[q].pc \in {"idle", "returned", "raised"}
  /\ \/ rc' = [rc EXCEPT ![q] =
                 [RcIdle EXCEPT !.pc = "loop",
                                !.ambiguous =
                                   get_ambiguous_comments(comments,
                                                          sentiment_scores),
                                !.pos = 1]]
     \/ /\ rc[q].pc # "raised"
        /\ rc' = [rc EXCEPT ![q] = [RcIdle EXCEPT !.pc = "raised"]]
  /\ UNCHANGED <<pipelineVars, vaderVars, tableVars, passVars, selected,
                 llm_log>>

\* One iteration of "for item in ambiguous": the LLM call raises and the item
\* is skipped, or it returns and api_calls_made and one of the two tallies
\* are incremented, then the row is updated and reclassified_count is
\* incremented; an update that raises is caught by "except Exception".
\* After the last item the stats dict is returned.
ReclassifyItem(q) ==
  /\ rc[q].pc = "loop"
  /\ IF rc[q].pos <= Len(rc[q].ambiguous)
     THEN LET item == rc[q].ambiguous[rc[q].pos]
              n == Len(rc[q].ambiguous)
          IN  \/ /\ rc' = [rc EXCEPT
                             ![q].llm_failed = @ \cup {item.comment_id},
                             ![q].pos = next_item(@, n, TRUE)]
                 /\ UNCHANGED <<sentiment_scores, llm_log>>
              \/ \E llm_result \in LLMResults, update_raises \in BOOLEAN :
                   LET accepted ==
                         confidence_accepted(llm_result.llm_confidence)
                       final_label == IF accepted THEN llm_result.llm_label
                                      ELSE item.vader_label
                   IN  /\ sentiment_scores' =
                            IF update_raises THEN sentiment_scores
                            ELSE update_sentiment_score(
                                   sentiment_scores, item.comment_id,
                                   llm_result, final_label)
                       /\ llm_log' =
                            IF update_raises THEN llm_log
                            ELSE [llm_log EXCEPT ![item.comment_id] =
                                    Append(@, llm_result)]
                       /\ rc' = [rc EXCEPT
                            ![q].api_calls_made = @ + 1,
                            ![q].confidence_upgrades =
                               IF accepted THEN @ + 1 ELSE @,
                            ![q].retained_vader_label =
                               IF accepted THEN @ ELSE @ + 1,
                            ![q].reclassified_count =
                               IF update_raises THEN @ ELSE @ + 1,
                            ![q].written =
                               IF update_raises THEN @
                               ELSE Append(@, item.comment_id),
                            ![q].pos = next_item(@, n, update_raises)]
     ELSE /\ rc' = [rc EXCEPT ![q].pc = "returned"]
          /\ UNCHANGED <<sentiment_scores, llm_log>>
  /\ UNCHANGED <<pipelineVars, vaderVars, comments, passVars, selected>>

ReconcileNext ==
  \E q \in Reconcilers : StartReclassify(q) \/ ReclassifyItem(q)

ReconcileSpec == ReconcileInit /\ [][ReconcileNext]_vars

\* ---- ClassifySpec: baseline passes and a reconciliation together ----------
\* The texts of these runs are long enough for the reconciliation gate; their
\* baseline label is neutral or positive.
ClassifyTexts == {t \in ReconcileTexts : t.length > LLM_AMBIGUOUS_MIN_LENGTH}

\* No comment has a row yet.
ClassifyInit ==
  /\ PipelineIdle(ActiveCandidates)
  /\ VaderIdle
  /\ comments \in [CommentIds -> ClassifyTexts]
  /\ sentiment_scores = [c \in CommentIds |-> <<>>]
  /\ PassesIdle
  /\ selected = NotCalled
  /\ ReconcilersIdle

\* The two baseline passes and the direct llm-fallback trigger, which is
\* not serialised with either of them.
ClassifyNext ==
  \/ SentimentNext
  \/ StartReclassify("fallback")
  \/ ReclassifyItem("fallback")

ClassifySpec == ClassifyInit /\ [][ClassifyNext]_vars

\* ---- properties ----------------------------------------------------------
\* The run is between a successful lock acquisition and the end of its
\* finally block: it holds the lock.
InTry(r) ==
  pc[r] \in {"set_id", "phase1", "scrape", "phase2", "phase3", "phase4",
             "phase5", "complete", "handler", "release_id", "release_lock"}

Ended(r) == pc[r] \in {"done", "raised"}

Created(r) == scraping_runs[r].status # "absent"

\* C1: under any interleaving of scheduler ticks and manual triggers, at most
\* one run holds the pipeline lock, so at most one run is inside phases 1-5.
C1_AtMostOneRunHoldsLock ==
  /\ Cardinality({r \in RunIds : InTry(r)}) <= 1
  /\ (\E r \in RunIds : InTry(r)) => pipeline_lock

\* C1 witness: one run is in phase 3 while another call, started
\* concurrently, was refused the lock.
C1_Witness ==
  \E r1, r2 \in RunIds :
    /\ pc[r1] = "phase3"
    /\ pc[r2] = "skip_update"
    /\ r1 # r2

\* C2: acquire_pipeline_lock(run_id) on a free lock returns True and makes
\* run_id the holder; on a held lock it returns False and leaves the holder
\* (and the lock) as they were.
C2_AcquireContract ==
  [][ (Len(t_log') = Len(t_log) + 1 /\ Last(t_log').op = "acquire") =>
        IF ~pipeline_lock
        THEN /\ Last(t_log').ret = TRUE
             /\ pipeline_lock'
             /\ current_run_id' = Last(t_log').arg
        ELSE /\ Last(t_log').ret = FALSE
             /\ pipeline_lock'
             /\ current_run_id' = current_run_id ]_vars

\* C2 witness: an acquire that succeeded, directly followed by an acquire for
\* another id that was refused; the first id is still the holder.
C2_Witness ==
  /\ Len(t_log) = 2
  /\ t_log[1].op = "acquire" /\ t_log[1].ret = TRUE
  /\ t_log[2].op = "acquire" /\ t_log[2].ret = FALSE
  /\ t_log[1].arg # t_log[2].arg
  /\ current_run_id = t_log[1].arg

\* C3: release_pipeline_lock never raises, also on a free lock; after every
\* call the lock is free with no holder, and the acquire that follows a
\* release succeeds.
C3_ReleaseIdempotent ==
  [][ Len(t_log') = Len(t_log) + 1 =>
        /\ Last(t_log').op = "release" =>
             /\ ~Last(t_log').raised
             /\ ~pipeline_lock'
             /\ current_run_id' = None
        /\ (t_log # <<>> /\ Last(t_log).op = "release"
              /\ Last(t_log').op = "acquire") => Last(t_log').ret = TRUE ]_vars

\* C3 witness: two releases in a row on a lock that was already free, then
\* an acquire that succeeds.
C3_Witness ==
  /\ Len(t_log) = 3
  /\ t_log[1].op = "release" /\ t_log[2].op = "release"
  /\ t_log[3].op = "acquire" /\ t_log[3].ret = TRUE
  /\ pipeline_lock

\* C4: a run that acquired the lock has released it when it ends, on every
\* path: the lock is locked only while some run is inside its try/finally,
\* so once that run has ended the lock is free.
C4_LockReleasedOnEveryPath ==
  pipeline_lock => \E r \in RunIds : InTry(r)

\* C4 witness: a run whose except handler raised has ended, and the lock is
\* free.
C4_Witness ==
  \E r \in RunIds :
    /\ pc[r] = "raised" /\ handled[r]
    /\ ~pipeline_lock
    /\ \A q \in RunIds : ~InTry(q)

\* C5 (as claimed): every run that was created has a terminal status once
\* run_full_pipeline has ended.
C5_TerminalStatusPersisted ==
  \A r \in RunIds :
    (Ended(r) /\ Created(r)) => scraping_runs[r].status \in TerminalStatuses

\* C6: every status write of run_full_pipeline finds the run in status
\* running, moves it to a terminal status, and is the only write to that run.
C6_StatusWrittenOnce ==
  [][ \A r \in RunIds :
        /\ status_log'[r] # status_log[r] =>
             /\ status_log[r] = <<>>
             /\ scraping_runs[r].status = "running"
             /\ scraping_runs'[r].status \in TerminalStatuses
        /\ (scraping_runs'[r].status # scraping_runs[r].status
              /\ scraping_runs[r].status # "absent") =>
             status_log'[r] # status_log[r] ]_vars

\* C6 witness: a run that went through the outer handler has ended with
\* exactly one status write.
C6_Witness ==
  \E r \in RunIds :
    /\ pc[r] = "done" /\ handled[r]
    /\ status_log[r] = <<"failed">>
    /\ scraping_runs[r].status = "failed"

\* C7 (as claimed): a run in which scrape_posts raised for a candidate ends
\* with status partial.
C7_ScrapeFailureIsPartial ==
  \A r \in RunIds :
    (pc[r] = "done" /\ has_errors[r]) => scraping_runs[r].status = "partial"

\* C7 (amended): a run in which scrape_posts raised for a candidate and no
\* exception reached the outer handler ends with status partial, in the run
\* record and in the returned summary.
C7_ScrapeFailureIsPartialUnlessEscaped ==
  \A r \in RunIds :
    (pc[r] = "done" /\ has_errors[r] /\ ~handled[r]) =>
      /\ scraping_runs[r].status = "partial"
      /\ result[r].status = "partial"

\* C7 witness: such a run has ended.
C7_Witness ==
  \E r \in RunIds :
    /\ pc[r] = "done" /\ has_errors[r] /\ ~handled[r]
    /\ Len(scraping_runs[r].errors) > 0

\* C8 (as claimed): when an exception reaches the outer handler,
\* run_full_pipeline does not raise, the run is persisted as failed and the
\* returned dict has status failed and the error text.
C8_EscapedExceptionIsFailed ==
  \A r \in RunIds :
    (Ended(r) /\ handled[r]) =>
      /\ pc[r] = "done"
      /\ scraping_runs[r].status = "failed"
      /\ result[r].status = "failed"
      /\ result[r].error

\* C9: a run that acquired the lock, in which no scrape_posts call raised
\* and no exception reached the outer handler, ends with status success in
\* the run record and in the returned summary.
C9_CleanRunIsSuccess ==
  \A r \in RunIds :
    (pc[r] = "done" /\ result[r].status # "skipped"
       /\ ~has_errors[r] /\ ~handled[r]) =>
      /\ scraping_runs[r].status = "success"
      /\ result[r].status = "success"
      /\ result[r].run_id = r

\* C9 witness: such a run has ended, after another run ended as partial.
C9_Witness ==
  \E r, q \in RunIds :
    /\ pc[r] = "done" /\ result[r].status = "success"
    /\ ~has_errors[r] /\ ~handled[r]
    /\ pc[q] = "done" /\ result[q].status = "partial"

\* Concatenation of the posts returned by the scrape_posts calls that did
\* not raise.
RECURSIVE PostsOf(_)
PostsOf(att) ==
  IF att = <<>> THEN <<>>
  ELSE (IF Head(att).raised THEN <<>> ELSE Head(att).posts) \o PostsOf(Tail(att))

PastPhase1(r) ==
  /\ pc[r] \in {"phase2", "phase3", "phase4", "phase5", "complete",
                "handler", "release_id", "release_lock"}
  /\ idx[r] >= 1

\* C10: in phase 1 the candidates are attempted in listing order, each at
\* most once; a failure does not stop the loop, so when phase 1 is over every
\* active candidate was attempted exactly once, and all_posts holds the posts
\* of exactly the candidates whose scrape did not raise.
C10_EveryCandidateAttempted ==
  \A r \in RunIds :
    /\ Len(attempted[r]) <= Len(candidates[r])
    /\ \A i \in 1..Len(attempted[r]) :
         attempted[r][i].username = candidates[r][i]
    /\ all_posts[r] = PostsOf(attempted[r])
    /\ PastPhase1(r) =>
         /\ Len(attempted[r]) = Len(ActiveCandidates)
         /\ \A i \in 1..Len(ActiveCandidates) :
              attempted[r][i].username = ActiveCandidates[i]

\* C10 witness: phase 1 is over; the first candidate failed, a later one
\* succeeded and its post is in all_posts.
C10_Witness ==
  \E r \in RunIds :
    /\ PastPhase1(r)
    /\ attempted[r][1].raised
    /\ \E i \in 2..Len(attempted[r]) :
         /\ ~attempted[r][i].raised
         /\ attempted[r][i].posts # <<>>
         /\ all_posts[r] # <<>>

\* Position of a pc value in the phase sequence of the try body: 0 before
\* phase 1, k inside phase k, 6 at the completion step, -1 elsewhere.
PhaseRank(l) ==
  CASE l = "set_id" -> 0
    [] l \in {"phase1", "scrape"} -> 1
    [] l = "phase2" -> 2
    [] l = "phase3" -> 3
    [] l = "phase4" -> 4
    [] l = "phase5" -> 5
    [] l = "complete" -> 6
    [] OTHER -> -1

\* C11: within one run the phases run in the order post scraping, comment
\* scraping, baseline sentiment, reconciliation, theme tagging: a run enters
\* phase k+1 (or the completion step) only from phase k, and leaves a phase
\* only for the next one or for the outer handler.
C11_PhasesInOrder ==
  [][ \A r \in RunIds :
        pc'[r] # pc[r] =>
          /\ PhaseRank(pc'[r]) >= 1 =>
               /\ PhaseRank(pc[r]) >= 0
               /\ PhaseRank(pc'[r]) - PhaseRank(pc[r]) \in {0, 1}
          /\ (PhaseRank(pc[r]) \in 1..5 /\ PhaseRank(pc'[r]) < 1) =>
               pc'[r] = "handler" ]_vars

\* C11 witness: a run has completed the five phases without entering the
\* handler and is at the completion step, with posts collected in phase 1.
C11_Witness ==
  \E r \in RunIds :
    /\ pc[r] = "complete" /\ ~handled[r]
    /\ all_posts[r] # <<>>

\* The call took the branch of "if not acquire_pipeline_lock(run_id)" and has
\* left run_full_pipeline: its row exists, it never entered the try block's
\* handler and it did not return from the completion step.
Refused(r) ==
  /\ Ended(r) /\ Created(r) /\ ~handled[r]
  /\ result[r].status \notin {"success", "partial"}

\* C12 (as claimed): a call that was refused the lock has executed no phase,
\* has marked its run failed with duration 0 and a completion time, and has
\* returned status skipped.
C12_RefusedRunIsMarkedAndSkipped ==
  \A r \in RunIds :
    Refused(r) =>
      /\ pc[r] = "done"
      /\ result[r].status = "skipped"
      /\ attempted[r] = <<>>
      /\ status_log[r] = <<"failed">>
      /\ scraping_runs[r].status = "failed"
      /\ scraping_runs[r].duration_seconds = "zero"
      /\ scraping_runs[r].completed_at

\* A step of the POST /run handler (as opposed to a step of a pipeline thread).
TriggerStep == rq_pc' # rq_pc \/ launched' # launched

\* C13 (as claimed): a manual trigger made while a run holds the pipeline
\* lock is answered with 409, and the 409 carries the id of the run that
\* holds the lock.
C13_ConflictCarriesHolderId ==
  [][ TriggerStep =>
        /\ (rq_pc = "idle" /\ \E r \in RunIds : InTry(r)) =>
             rq_pc' = "conflict"
        /\ rq_pc = "conflict" =>
             /\ response'.code = 409
             /\ \E r \in RunIds : InTry(r) /\ response'.header = r ]_vars

\* C14: a manual trigger that is rejected with a conflict creates no
\* ScrapingRun record and starts no run: each step of the rejected request
\* leaves the run records, the threads and the lock state as they were.
C14_RejectedTriggerChangesNothing ==
  [][ (TriggerStep /\ (rq_pc = "conflict" \/ rq_pc' = "conflict")) =>
        UNCHANGED <<scraping_runs, pc, pipeline_lock, current_run_id,
                    launched>> ]_vars

\* C14 witness: a request has just been answered 409 while a run is inside
\* the try block and its record is running.
C14_Witness ==
  /\ rq_pc = "idle" /\ response.code = 409
  /\ \E r \in RunIds :
       /\ InTry(r) /\ response.header = r
       /\ scraping_runs[r].status = "running"

\* C15 (as claimed): the run id returned in the 202 response is the id of the
\* ScrapingRun that the launched run creates and writes its status to.
C15_AcceptedIdIsRunRecordId ==
  \A r \in RunIds :
    (launched[r] # None /\ Created(r)) => launched[r] = r

\* C16: for every compound score c the baseline label is positive when
\* c >= 0.05, negative when c <= -0.05 and neutral when -0.05 < c < 0.05;
\* 0.05 is positive, -0.05 is negative, 0.049, -0.049 and 0.0 are neutral, and
\* every c gets exactly one of the three labels.
C16_VaderThresholds ==
  vader_out # "none" =>
    /\ vader_out \in SentimentLabel
    /\ vader_out = "positive" <=> vader_in >= Hundredths(5)
    /\ vader_out = "negative" <=> vader_in <= -Hundredths(5)
    /\ vader_out = "neutral" <=>
         (-Hundredths(5) < vader_in /\ vader_in < Hundredths(5))
    /\ vader_in \in {Thousandths(49), -Thousandths(49), 0} =>
         vader_out = "neutral"

\* C16 witness: the boundary score 0.05 has been classified positive.
C16_Witness ==
  vader_in = Hundredths(5) /\ vader_out = "positive"

\* The comment ids of a list of rows.
CommentIdsOf(rows) == [i \in 1..Len(rows) |-> rows[i].comment_id]

\* C17: analyze_comments_batch called on n comments without a score, with no
\* failing insert, has persisted exactly n rows when it returns, one per
\* input comment, each with final_label equal to its baseline label and
\* llm_label, llm_confidence and llm_model null.
C17_BatchPersistsOneRowPerComment ==
  \A w \in Passes :
    (w_pc[w] = "returned" /\ failed[w] = {}) =>
      /\ Len(results[w]) = Len(batch[w])
      /\ \A i \in 1..Len(batch[w]) :
           LET c == batch[w][i]
               row == results[w][i]
           IN  /\ row.comment_id = c
               /\ sentiment_scores[c] = <<row>>
               /\ row.vader_label = vader_label(comments[c].compound)
               /\ row.final_label = row.vader_label
               /\ row.llm_label = Null
               /\ row.llm_confidence = NullConfidence
               /\ row.llm_model = Null

\* C17 witness: a pass over all the comments has returned with no failed
\* insert.
C17_Witness ==
  \E w \in Passes :
    /\ w_pc[w] = "returned" /\ failed[w] = {}
    /\ Len(batch[w]) = NumComments
    /\ Len(results[w]) = NumComments

\* C18: an insert that fails for one comment is skipped without raising:
\* every comment of the batch has been classified and tried when the
\* function returns, and the returned list holds exactly the rows that
\* were inserted, in batch order.
C18_FailedInsertIsSkipped ==
  \A w \in Passes :
    w_pc[w] = "returned" =>
      /\ failed[w] \subseteq Range(batch[w])
      /\ CommentIdsOf(results[w]) =
           SelectSeq(batch[w], LAMBDA c : c \notin failed[w])
      /\ \A i \in 1..Len(results[w]) :
           /\ results[w][i] =
                SentimentScoreCreate(results[w][i].comment_id,
                                     comments[results[w][i].comment_id])
           /\ sentiment_scores[results[w][i].comment_id] # <<>>

\* C18 witness: a pass has returned after the insert of its first comment
\* failed and the insert of a later comment succeeded.
C18_Witness ==
  \E w \in Passes :
    /\ w_pc[w] = "returned"
    /\ Len(batch[w]) >= 2
    /\ batch[w][1] \in failed[w]
    /\ results[w] # <<>>

\* C19: there is at most one SentimentScore row per comment in every
\* reachable state, also when phase 3 and the direct trigger run
\* concurrently and both have selected the same unscored comments.
C19_AtMostOneScorePerComment ==
  \A c \in CommentIds : Len(sentiment_scores[c]) <= 1

\* C19 witness: both passes selected the same comment while it was unscored;
\* one inserted its row and the other's insert was rejected.
C19_Witness ==
  \E c \in CommentIds :
    /\ \A w \in Passes : c \in Range(batch[w])
    /\ \E w \in Passes : c \in Range(CommentIdsOf(results[w]))
    /\ \E w \in Passes : c \in failed[w]
    /\ Len(sentiment_scores[c]) = 1

\* C20: the ambiguity gate returns exactly the scores whose baseline
\* compound is strictly between -0.05 and 0.05, whose llm_label is null and
\* whose comment text is strictly longer than 20 characters, each once; a
\* compound of exactly 0.05 or -0.05 and a text of exactly 20 characters are
\* not selected.
C20_GateSelectsExactlyAmbiguous ==
  selected.called =>
    LET ids == CommentIdsOf(selected.eligible)
    IN  /\ Range(ids) =
             {c \in CommentIds :
                /\ sentiment_scores[c] # <<>>
                /\ sentiment_scores[c][1].vader_compound > -Hundredths(5)
                /\ sentiment_scores[c][1].vader_compound < Hundredths(5)
                /\ sentiment_scores[c][1].llm_label = Null
                /\ comments[c].length > 20}
        /\ Cardinality(Range(ids)) = Len(ids)
        /\ \A i \in 1..Len(ids) :
             /\ selected.eligible[i].vader_compound \notin
                  {Hundredths(5), -Hundredths(5)}
             /\ selected.eligible[i].text.length # 20
             /\ selected.eligible[i].text = comments[ids[i]]

\* C20 witness: the gate has selected a score and has left out a baseline
\* row that misses the band or the length by the boundary value.
C20_Witness ==
  /\ selected.called
  /\ selected.eligible # <<>>
  /\ \E c \in CommentIds :
       /\ c \notin Range(CommentIdsOf(selected.eligible))
       /\ sentiment_scores[c] # <<>>
       /\ sentiment_scores[c][1].llm_label = Null
       /\ \/ comments[c].length = 20
          \/ sentiment_scores[c][1].vader_compound \in
               {Hundredths(5), -Hundredths(5)}

\* Reconciliation q starts its next invocation right after its previous one
\* returned, and no other reconciliation has run.
SecondInARow(q) ==
  /\ rc[q].pc = "returned" /\ rc'[q].pc = "loop"
  /\ \A o \in Reconcilers \ {q} : rc[o].pc = "idle"

\* Every selected item is a score whose llm_label is null.
SelectsOnlyUnset(q) ==
  \A i \in 1..Len(rc'[q].ambiguous) :
    sentiment_scores[rc'[q].ambiguous[i].comment_id][1].llm_label = Null

\* C21 (as claimed): the gate never selects a score whose llm_label is set,
\* and a reconciliation run right after another processes zero items.
C21_SecondRunProcessesNothing ==
  [][ \A q \in Reconcilers :
        /\ (rc[q].pc # "loop" /\ rc'[q].pc = "loop") => SelectsOnlyUnset(q)
        /\ SecondInARow(q) => rc'[q].ambiguous = <<>> ]_vars

\* C21 (amended): the gate never selects a score whose llm_label is set, and
\* a reconciliation run right after another selects exactly the items of
\* the first run whose row was not written (the classifier call or the
\* update failed): none when nothing failed.
C21_SecondRunRetriesOnlyFailures ==
  [][ \A q \in Reconcilers :
        /\ (rc[q].pc # "loop" /\ rc'[q].pc = "loop") => SelectsOnlyUnset(q)
        /\ SecondInARow(q) =>
             Range(CommentIdsOf(rc'[q].ambiguous)) =
               Range(CommentIdsOf(rc[q].ambiguous)) \ Range(rc[q].written) ]_vars

\* C21 witness: a run that follows a run which wrote a row has selected
\* nothing.
C21_Witness ==
  \E q \in Reconcilers :
    /\ rc[q].pc = "loop" /\ rc[q].ambiguous = <<>>
    /\ \A o \in Reconcilers \ {q} : rc[o].pc = "idle"
    /\ \E c \in CommentIds : llm_log[c] # <<>>

\* C22: for every SentimentScore row in every reachable state: with null
\* llm fields final_label is the baseline label; with llm fields set and
\* llm_confidence >= 0.7 final_label is llm_label; with llm_confidence < 0.7
\* final_label is the baseline label, and llm_label and llm_confidence are
\* the values the classifier returned.
C22_FinalLabelRule ==
  \A c \in CommentIds :
    \A i \in DOMAIN sentiment_scores[c] :
      LET row == sentiment_scores[c][i]
      IN  IF row.llm_label = Null
          THEN /\ row.llm_confidence = NullConfidence
               /\ row.final_label = row.vader_label
          ELSE /\ llm_log[c] # <<>>
               /\ row.llm_label = Last(llm_log[c]).llm_label
               /\ row.llm_confidence = Last(llm_log[c]).llm_confidence
               /\ row.llm_confidence >= Hundredths(70) =>
                    row.final_label = row.llm_label
               /\ row.llm_confidence < Hundredths(70) =>
                    row.final_label = row.vader_label

\* C22 witness: one row was accepted at confidence 0.7 exactly and another
\* kept its baseline label at confidence 0.69.
C22_Witness ==
  \E c, d \in CommentIds :
    /\ sentiment_scores[c] # <<>> /\ sentiment_scores[d] # <<>>
    /\ sentiment_scores[c][1].llm_confidence = Hundredths(70)
    /\ sentiment_scores[c][1].final_label = "positive"
    /\ sentiment_scores[c][1].vader_label = "neutral"
    /\ sentiment_scores[d][1].llm_confidence = Hundredths(69)
    /\ sentiment_scores[d][1].llm_label = "negative"
    /\ sentiment_scores[d][1].final_label = "neutral"

\* C23 (as claimed): each SentimentScore row is updated by reconciliation at
\* most once, also when the direct trigger runs concurrently with phase 4.
C23_RowReconciledAtMostOnce ==
  \A c \in CommentIds : Len(llm_log[c]) <= 1

\* C24: when the classifier call fails for an item, the step leaves every
\* SentimentScore row unchanged and does not count an API call, and the
\* loop goes on: when the invocation returns, every selected item either
\* failed in the call or was counted in api_calls_made.
C24_LlmFailureIsIsolated ==
  [][ \A q \in Reconcilers :
        /\ (rc[q].pc = "loop" /\ rc'[q].llm_failed # rc[q].llm_failed) =>
             /\ sentiment_scores' = sentiment_scores
             /\ rc'[q].api_calls_made = rc[q].api_calls_made
             /\ rc'[q].pc = "loop"
        /\ (rc[q].pc = "loop" /\ rc'[q].pc = "returned") =>
             /\ rc[q].llm_failed \subseteq
                  Range(CommentIdsOf(rc[q].ambiguous))
             /\ rc[q].api_calls_made + Cardinality(rc[q].llm_failed) =
                  Len(rc[q].ambiguous) ]_vars

\* C24 witness: an invocation has returned after the call for its first item
\* failed and the row of a later item was written.
C24_Witness ==
  \E q \in Reconcilers :
    /\ rc[q].pc = "returned"
    /\ Len(rc[q].ambiguous) >= 2
    /\ rc[q].ambiguous[1].comment_id \in rc[q].llm_failed
    /\ rc[q].written # <<>>

\* C29 (as claimed): in every returned stats result reclassified_count
\* equals confidence_upgrades + retained_vader_label and equals the number
\* of rows whose llm fields were written during the invocation.
C29_CountersAgree ==
  \A q \in Reconcilers :
    rc[q].pc = "returned" =>
      /\ rc[q].reclassified_count =
           rc[q].confidence_upgrades + rc[q].retained_vader_label
      /\ rc[q].reclassified_count = Len(rc[q].written)

\* C25 (as claimed): in every reachable state the lock is held exactly when
\* get_current_run_id() is not None, and the recorded id is the id of the
\* run that holds the lock.
C25_HolderAgreesWithLock ==
  /\ pipeline_lock <=> is_pipeline_running
  /\ \A r \in RunIds : InTry(r) => get_current_run_id = r

\* The step is taken by a call that has been or is being refused the lock.
RefusedStep(r) ==
  /\ pc'[r] # pc[r]
  /\ pc[r] = "skip_update" \/ (pc[r] = "acquire" /\ pc'[r] = "skip_update")

\* C26: a run_full_pipeline call that fails to acquire the lock never
\* releases the lock and never clears or changes the current holder: the
\* lock is released and the holder id cleared only by steps of the run that
\* holds the lock.
C26_RefusedCallLeavesLockAlone ==
  [][ /\ \A r \in RunIds :
           RefusedStep(r) => UNCHANGED <<pipeline_lock, current_run_id>>
      /\ (pipeline_lock /\ ~pipeline_lock') =>
           \E r \in RunIds : pc[r] = "release_lock" /\ pc'[r] # pc[r]
      /\ (current_run_id # None /\ current_run_id' # current_run_id) =>
           /\ pc[current_run_id] = "release_id"
           /\ pc'[current_run_id] = "release_lock" ]_vars

\* C26 witness: a refused call has returned skipped while the run that
\* holds the lock is still in a phase and is still the recorded holder.
C26_Witness ==
  \E r, h \in RunIds :
    /\ pc[r] = "done" /\ result[r].status = "skipped"
    /\ pc[h] \in {"phase1", "scrape", "phase2", "phase3", "phase4", "phase5"}
    /\ pipeline_lock /\ current_run_id = h

\* C27 (as claimed): the run launched by an accepted (202) manual trigger
\* acquires the lock: it is never refused the lock and skipped.
C27_AcceptedRunIsNeverSkipped ==
  \A r \in RunIds :
    launched[r] # None => (pc[r] # "skip_update" /\ ~Refused(r))

\* C28 (as claimed): a run ends with status success only if no error entry
\* was recorded in its error log.
C28_SuccessHasEmptyErrorLog ==
  \A r \in RunIds :
    scraping_runs[r].status = "success" => scraping_runs[r].errors = <<>>

\* A step of a baseline pass (analyze_comments_batch or its caller).
BaselineStep == <<w_pc, batch, pos, results, failed>>' #
                <<w_pc, batch, pos, results, failed>>

\* C30: baseline classification never modifies an existing SentimentScore
\* row: a step of analyze_comments_batch, in the direct trigger or in phase
\* 3, leaves every row that exists unchanged, reconciled rows included.
C30_BaselineLeavesRowsUnchanged ==
  [][ BaselineStep =>
        \A c \in CommentIds :
          \A i \in 1..Len(sentiment_scores[c]) :
            /\ i <= Len(sentiment_scores'[c])
            /\ sentiment_scores'[c][i] = sentiment_scores[c][i] ]_vars

\* C30 witness: a baseline pass has returned with its insert for a comment
\* rejected, and the comment's row carries the values reconciliation wrote.
C30_Witness ==
  \E w \in Passes, c \in CommentIds :
    /\ w_pc[w] = "returned" /\ c \in failed[w]
    /\ sentiment_scores[c] # <<>>
    /\ sentiment_scores[c][1].llm_label # Null
    /\ sentiment_scores[c][1].final_label = "positive"

====
